---- MODULE Spec2Model ----
(***************************************************************************)
(* Model of the Dify workflow client (src/sdk/dify.js): the request        *)
(* executor, the SSE reassembler (readAll) and the result reconciler of    *)
(* WorkflowClient.getWorkflowResult.                                       *)
(*                                                                         *)
(* Text is a sequence of units.  A unit is one character ("\n", " ", ":",  *)
(* "{", ...) or one indivisible lexeme (the word "data", a JSON string     *)
(* literal, a number, "null", "[DONE]").  Read chunks may split the text   *)
(* between any two units.  On the wire the two-byte character U+00E9 is    *)
(* the byte pair "C3" "A9"; every other unit is carried as itself.         *)
(***************************************************************************)
EXTENDS Integers, Sequences, FiniteSets, TLC

(***************************************************************************)
(* Bounds of the model.                                                    *)
(***************************************************************************)
MaxLines == 2
MaxChunk == 3

(***************************************************************************)
(* JavaScript values.  Every value has the same four fields so that any    *)
(* two values can be compared.                                             *)
(***************************************************************************)
EmptyFields == [x \in {} |-> 0]

Undefined == [kind |-> "undefined", s |-> <<>>, n |-> 0, fields |-> EmptyFields]

Null == [kind |-> "null", s |-> <<>>, n |-> 0, fields |-> EmptyFields]

Str(t) == [kind |-> "string", s |-> t, n |-> 0, fields |-> EmptyFields]

Num(k) == [kind |-> "number", s |-> <<>>, n |-> k, fields |-> EmptyFields]

Obj(f) == [kind |-> "object", s |-> <<>>, n |-> 0, fields |-> f]

\* An Error object carrying a message text.
Err(t) == [kind |-> "error", s |-> t, n |-> 0, fields |-> EmptyFields]

\* if (v) ...
Truthy(v) ==
    CASE v.kind = "undefined" -> FALSE
      [] v.kind = "null" -> FALSE
      [] v.kind = "string" -> v.s # <<>>
      [] v.kind = "number" -> v.n # 0
      [] OTHER -> TRUE

\* v?.f : property read that tolerates null and undefined.
Get(v, f) ==
    IF v.kind = "object" /\ f \in DOMAIN v.fields THEN v.fields[f] ELSE Undefined

\* v.f : property read that throws a TypeError on null and undefined.
Throws(v) == v.kind \in {"null", "undefined"}

\* a || b
OrElse(a, b) == IF Truthy(a) THEN a ELSE b

Put(f, k, v) == [x \in (DOMAIN f) \cup {k} |-> IF x = k THEN v ELSE f[x]]

\* `${v}` : the text a template literal renders a value as.
TemplateStr(v) ==
    CASE v.kind = "string" -> v.s
      [] v.kind = "number" -> <<ToString(v.n)>>
      [] v.kind = "null" -> <<"null">>
      [] v.kind = "undefined" -> <<"undefined">>
      [] v.kind = "error" -> <<"Error: ">> \o v.s
      [] OTHER -> <<"[object Object]">>

(***************************************************************************)
(* Text helpers (String.prototype).                                        *)
(***************************************************************************)
NL == "\n"

WhiteSpace == {" ", "\r"}

RECURSIVE TrimEnd(_)
TrimEnd(t) ==
    IF t # <<>> /\ t[Len(t)] \in WhiteSpace THEN TrimEnd(SubSeq(t, 1, Len(t) - 1)) ELSE t

RECURSIVE TrimStart(_)
TrimStart(t) ==
    IF t # <<>> /\ t[1] \in WhiteSpace THEN TrimStart(Tail(t)) ELSE t

Trim(t) == TrimStart(TrimEnd(t))

\* Position of the first u in t, 0 when there is none (indexOf's -1).
IndexOf(t, u) ==
    IF \E i \in 1..Len(t) : t[i] = u
    THEN CHOOSE i \in 1..Len(t) : t[i] = u /\ \A j \in 1..(i - 1) : t[j] # u
    ELSE 0

StartsWith(t, p) == Len(t) >= Len(p) /\ SubSeq(t, 1, Len(p)) = p

(***************************************************************************)
(* JSON.parse and JSON.stringify on texts of lexemes.  Objects in a text   *)
(* are flat: a member's value is a scalar.                                 *)
(***************************************************************************)
StrContents ==
    {"workflow_run_id", "event", "status", "text", "r1", "r2", "error", "workflow_started", "hi"}

NumRange == {0, 7, 400}

Quote(c) == "\"" \o c \o "\""

IsStrLit(u) == u = "\"\"" \/ \E c \in StrContents : u = Quote(c)

Unquote(u) == IF u = "\"\"" THEN <<>> ELSE <<CHOOSE c \in StrContents : u = Quote(c)>>

IsNumLit(u) == \E k \in NumRange : u = ToString(k)

IsScalarLit(u) == IsStrLit(u) \/ IsNumLit(u) \/ u = "null"

ScalarOf(u) ==
    IF IsStrLit(u) THEN Str(Unquote(u))
    ELSE IF IsNumLit(u) THEN Num(CHOOSE k \in NumRange : u = ToString(k))
    ELSE Null

KeyOf(u) == IF Unquote(u) = <<>> THEN "" ELSE Unquote(u)[1]

ParseFail == [ok |-> FALSE, value |-> Undefined]

ParseOk(v) == [ok |-> TRUE, value |-> v]

RECURSIVE ParseMembers(_, _)
ParseMembers(toks, acc) ==
    IF Len(toks) < 3 THEN ParseFail
    ELSE IF ~IsStrLit(toks[1]) \/ toks[2] # ":" \/ ~IsScalarLit(toks[3]) THEN ParseFail
    ELSE LET acc2 == Put(acc, KeyOf(toks[1]), ScalarOf(toks[3]))
         IN  IF Len(toks) = 3 THEN ParseOk(Obj(acc2))
             ELSE IF toks[4] = "," THEN ParseMembers(SubSeq(toks, 5, Len(toks)), acc2)
             ELSE ParseFail

\* Whitespace between lexemes is insignificant.
SkipWhiteSpace(t) == SelectSeq(t, LAMBDA u : u \notin WhiteSpace /\ u # NL)

JSONParse(t) ==
    LET toks == SkipWhiteSpace(t)
    IN  IF Len(toks) = 1 THEN
            IF IsScalarLit(toks[1]) THEN ParseOk(ScalarOf(toks[1])) ELSE ParseFail
        ELSE IF Len(toks) >= 2 /\ toks[1] = "{" /\ toks[Len(toks)] = "}" THEN
            IF Len(toks) = 2 THEN ParseOk(Obj(EmptyFields))
            ELSE ParseMembers(SubSeq(toks, 2, Len(toks) - 1), EmptyFields)
        ELSE ParseFail

ScalarText(v) ==
    CASE v.kind = "string" -> IF v.s = <<>> THEN "\"\"" ELSE Quote(v.s[1])
      [] v.kind = "number" -> ToString(v.n)
      [] OTHER -> "null"

RECURSIVE MembersText(_, _)
MembersText(f, keys) ==
    IF keys = {} THEN <<>>
    ELSE LET k == CHOOSE x \in keys : TRUE
             m == <<(IF k = "" THEN "\"\"" ELSE Quote(k)), ":", ScalarText(f[k])>>
         IN  IF keys = {k} THEN m ELSE m \o <<",">> \o MembersText(f, keys \ {k})

\* JSON.stringify of a flat object.
JSONStringify(v) == <<"{">> \o MembersText(v.fields, DOMAIN v.fields) \o <<"}">>

(***************************************************************************)
(* TextDecoder("utf-8").decode(value, {stream: true}): need is the number  *)
(* of continuation bytes the decoder still waits for.                      *)
(***************************************************************************)
LeadByte == "C3"

ContByte == "A9"

EAcute == "U+00E9"

Replacement == "U+FFFD"

RECURSIVE Decode(_, _, _)
Decode(need, bytes, out) ==
    IF bytes = <<>> THEN [pending |-> need, out |-> out]
    ELSE LET b == Head(bytes)
         IN  IF need = 0 THEN
                 IF b = LeadByte THEN Decode(1, Tail(bytes), out)
                 ELSE IF b = ContByte THEN Decode(0, Tail(bytes), Append(out, Replacement))
                 ELSE Decode(0, Tail(bytes), Append(out, b))
             ELSE
                 IF b = ContByte THEN Decode(0, Tail(bytes), Append(out, EAcute))
                 ELSE Decode(0, bytes, Append(out, Replacement))

(***************************************************************************)
(* The SSE reassembler: the body of readAll's inner loop, applied to the   *)
(* locals st = [buffer, task_id, log, thrown, trace].  thrown is the       *)
(* exception leaving the loop body (Undefined: none).  trace is a history  *)
(* of the loop's iterations and is read by no operation: for each line,    *)
(* the captured identifier before and after it and whether the rest of     *)
(* the buffer was left as it was.                                          *)
(***************************************************************************)
DataPrefix == <<"data", ":">>

DoneSentinel == <<"[DONE]">>

\* Mutant: the first identifier seen is kept.
CaptureFirst(ev, tid) ==
    IF Truthy(Get(ev, "workflow_run_id")) /\ ~Truthy(tid) THEN Get(ev, "workflow_run_id") ELSE tid

\* Mutant: the identifier is assigned from every parsed event.
CaptureAlways(ev, tid) == Get(ev, "workflow_run_id")

\* if (ev?.workflow_run_id) task_id = ev.workflow_run_id
Capture(ev, tid) ==
    IF Truthy(Get(ev, "workflow_run_id")) THEN Get(ev, "workflow_run_id") ELSE tid

\* The progress log an event produces ("none": nothing is logged).
Classify(ev) ==
    LET e == Get(ev, "event")
    IN  IF ~Truthy(e) \/ e = Str(<<"error">>) \/ Get(ev, "status") = Num(400) THEN "error"
        ELSE IF e \in {Str(<<"workflow_started">>), Str(<<"tts_message">>)} THEN "started"
        ELSE IF e \in {Str(<<"node_started">>), Str(<<"node_finished">>)} THEN "node"
        ELSE IF e \in {Str(<<"workflow_finished">>), Str(<<"tts_message_end">>)} THEN "finished"
        ELSE "none"

\* Mutant: an event of the error class clears the captured run identifier.
HandleEventErrorClears(ev, st) ==
    LET st1 == [st EXCEPT !.task_id = Capture(ev, st.task_id)]
    IN  IF Throws(ev) \/ Classify(ev) = "none" THEN st1
        ELSE IF Classify(ev) = "error"
             THEN [st1 EXCEPT !.log = Append(@, "error"), !.task_id = Str(<<>>)]
        ELSE [st1 EXCEPT !.log = Append(@, Classify(ev))]

\* The try block once JSON.parse has returned ev.  Reading ev.event of null
\* throws a TypeError, which the catch swallows.
HandleEvent(ev, st) ==
    LET st1 == [st EXCEPT !.task_id = Capture(ev, st.task_id)]
    IN  IF Throws(ev) \/ Classify(ev) = "none" THEN st1
        ELSE [st1 EXCEPT !.log = Append(@, Classify(ev))]

\* Mutant: the catch block rethrows the parse failure.
HandleDataRethrow(dataStr, st) ==
    IF dataStr = DoneSentinel THEN st
    ELSE LET p == JSONParse(dataStr)
         IN  IF p.ok THEN HandleEvent(p.value, st)
             ELSE [st EXCEPT !.thrown = Err(<<"SyntaxError">>)]

\* A data: payload: the sentinel is passed over, anything else is parsed and
\* a parse failure is swallowed.
HandleData(dataStr, st) ==
    IF dataStr = DoneSentinel THEN st
    ELSE LET p == JSONParse(dataStr)
         IN  IF p.ok THEN HandleEvent(p.value, st) ELSE st

\* Mutant: the line is trimmed on both sides before it is classified.
HandleLineTrimmed(line, st) ==
    IF Trim(line) = <<>> THEN st
    ELSE IF StartsWith(Trim(line), <<":">>) THEN st
    ELSE IF StartsWith(Trim(line), DataPrefix)
         THEN HandleData(Trim(SubSeq(Trim(line), Len(DataPrefix) + 1, Len(Trim(line)))), st)
    ELSE st

\* One complete line, already cut from the buffer and right-trimmed.
HandleLine(line, st) ==
    IF line = <<>> THEN st
    ELSE IF StartsWith(line, <<":">>) THEN st
    ELSE IF StartsWith(line, DataPrefix)
         THEN HandleData(Trim(SubSeq(line, Len(DataPrefix) + 1, Len(line))), st)
    ELSE st

\* Mutant: the inner loop is left at a [DONE] line.
RECURSIVE DrainBreakOnDone(_)
DrainBreakOnDone(st) ==
    LET idx == IndexOf(st.buffer, NL)
    IN  IF idx = 0 \/ st.thrown # Undefined THEN st
        ELSE LET line == TrimEnd(SubSeq(st.buffer, 1, idx - 1))
                 st1 == [st EXCEPT !.buffer = SubSeq(st.buffer, idx + 1, Len(st.buffer))]
                 st2 == HandleLine(line, st1)
                 step == [line |-> line, before |-> st1.task_id, after |-> st2.task_id,
                          kept |-> st2.buffer = st1.buffer]
                 st3 == [st2 EXCEPT !.trace = Append(@, step)]
             IN  IF StartsWith(line, DataPrefix)
                    /\ Trim(SubSeq(line, Len(DataPrefix) + 1, Len(line))) = DoneSentinel
                 THEN st3
                 ELSE DrainBreakOnDone(st3)

\* while ((idx = buffer.indexOf("\n")) >= 0) { ... }
RECURSIVE Drain(_)
Drain(st) ==
    LET idx == IndexOf(st.buffer, NL)
    IN  IF idx = 0 \/ st.thrown # Undefined THEN st
        ELSE LET line == TrimEnd(SubSeq(st.buffer, 1, idx - 1))
                 st1 == [st EXCEPT !.buffer = SubSeq(st.buffer, idx + 1, Len(st.buffer))]
                 st2 == HandleLine(line, st1)
                 step == [line |-> line, before |-> st1.task_id, after |-> st2.task_id,
                          kept |-> st2.buffer = st1.buffer]
             IN  Drain([st2 EXCEPT !.trace = Append(@, step)])

(***************************************************************************)
(* The request executor (_request).                                        *)
(***************************************************************************)
BasePath == <<"/v1">>

Merge(f, g) == [x \in (DOMAIN f) \cup (DOMAIN g) |-> IF x \in DOMAIN g THEN g[x] ELSE f[x]]

Without(f, k) == [x \in (DOMAIN f) \ {k} |-> f[x]]

\* Mutant: the body is attached whatever the method.
RequestBodyOnAnyMethod(method, path, data, stream, headers, key) ==
    LET h == Merge([x \in {"Authorization", "Content-Type"} |->
                       IF x = "Authorization" THEN <<"Bearer ", key>> ELSE <<"application/json">>],
                   headers)
        sends == data.kind \notin {"null", "undefined"}
        form == sends /\ h["Content-Type"] = <<"multipart/form-data">>
    IN  [method |-> method,
         path |-> path,
         headers |-> IF form THEN Without(h, "Content-Type") ELSE h,
         body |-> IF ~sends THEN "none" ELSE IF form THEN "form" ELSE "json",
         data |-> IF sends THEN data ELSE Undefined,
         stream |-> stream]

\* What _request hands to fetch.
Request(method, path, data, stream, headers, key) ==
    LET h == Merge([x \in {"Authorization", "Content-Type"} |->
                       IF x = "Authorization" THEN <<"Bearer ", key>> ELSE <<"application/json">>],
                   headers)
        sends == method # "GET" /\ data.kind \notin {"null", "undefined"}
        form == sends /\ h["Content-Type"] = <<"multipart/form-data">>
    IN  [method |-> method,
         path |-> path,
         headers |-> IF form THEN Without(h, "Content-Type") ELSE h,
         body |-> IF ~sends THEN "none" ELSE IF form THEN "form" ELSE "json",
         data |-> IF sends THEN data ELSE Undefined,
         stream |-> stream]

\* Mutant: a failure to read the error body is not caught.
RespondBodyReadThrows(req, res) ==
    IF res.net # "ok" THEN [threw |-> TRUE, error |-> Err(<<"fetch failed">>), data |-> Undefined]
    ELSE IF ~res.ok THEN
        [threw |-> TRUE,
         error |-> IF res.textOk
                   THEN Err(<<req.method, " ">> \o BasePath \o req.path
                            \o <<" failed: ", ToString(res.status), " ">> \o res.statusText
                            \o <<NL>> \o res.text)
                   ELSE Err(<<"body read failed">>),
         data |-> Undefined]
    ELSE IF req.stream THEN [threw |-> FALSE, error |-> Undefined, data |-> Str(<<"ReadableStream">>)]
    ELSE [threw |-> FALSE, error |-> Undefined,
          data |-> IF res.jsonOk THEN res.json ELSE Obj(EmptyFields)]

\* What _request makes of fetch's outcome: it throws, or returns {data}.
Respond(req, res) ==
    IF res.net # "ok" THEN [threw |-> TRUE, error |-> Err(<<"fetch failed">>), data |-> Undefined]
    ELSE IF ~res.ok THEN
        [threw |-> TRUE,
         error |-> Err(<<req.method, " ">> \o BasePath \o req.path
                       \o <<" failed: ", ToString(res.status), " ">> \o res.statusText
                       \o <<NL>> \o (IF res.textOk THEN res.text ELSE <<>>)),
         data |-> Undefined]
    ELSE IF req.stream THEN [threw |-> FALSE, error |-> Undefined, data |-> Str(<<"ReadableStream">>)]
    ELSE [threw |-> FALSE, error |-> Undefined,
          data |-> IF res.jsonOk THEN res.json ELSE Obj(EmptyFields)]

\* DifyClient.sendRequest: what it hands to fetch.
SendRequest(method, endpoint, data, stream, headerParams, key) ==
    LET headers == Merge([x \in {"Authorization", "Content-Type"} |->
                             IF x = "Authorization" THEN <<"Bearer ", key>>
                             ELSE <<"application/json">>],
                         headerParams)
        sends == method # "GET" /\ data.kind \notin {"null", "undefined"}
        form == sends /\ headers["Content-Type"] = <<"multipart/form-data">>
    IN  [method |-> method,
         path |-> endpoint,
         headers |-> IF form THEN Without(headers, "Content-Type") ELSE headers,
         body |-> IF ~sends THEN "none" ELSE IF form THEN "form" ELSE "json",
         data |-> IF sends THEN data ELSE Undefined,
         stream |-> stream]

\* DifyClient.sendRequest: what it makes of fetch's outcome.
SendRespond(req, res) ==
    IF res.net # "ok" THEN [threw |-> TRUE, error |-> Err(<<"fetch failed">>), data |-> Undefined]
    ELSE IF ~res.ok THEN
        [threw |-> TRUE,
         error |-> Err(<<req.method, " ">> \o BasePath \o req.path
                       \o <<" failed: ", ToString(res.status), " ">> \o res.statusText
                       \o <<NL>> \o (IF res.textOk THEN res.text ELSE <<>>)),
         data |-> Undefined]
    ELSE IF req.stream THEN [threw |-> FALSE, error |-> Undefined, data |-> Str(<<"ReadableStream">>)]
    ELSE [threw |-> FALSE, error |-> Undefined,
          data |-> IF res.jsonOk THEN res.json ELSE Obj(EmptyFields)]

\* The query string: the parameters that are neither null nor undefined.
Query(params) ==
    [k \in {x \in DOMAIN params : params[x].kind \notin {"null", "undefined"}} |-> params[k]]

InfoPath == <<"/info">>

PlaceholderName == Str(<<"Dify Workflow">>)

\* info(user): the request it issues.
InfoRequest(user, key) ==
    [query |-> Query([x \in {"user"} |-> user])]
        @@ Request("GET", InfoPath, Null, FALSE, EmptyFields, key)

RunPath == <<"/workflows/run">>

ResultPath(task_id) == <<"/workflows/run/">> \o TemplateStr(task_id)

\* run(inputs, user, isStream)
RunRequest(inputs, user, isStream, key) ==
    Request("POST", RunPath,
            Obj([x \in {"inputs", "response_mode", "user"} |->
                    IF x = "inputs" THEN inputs
                    ELSE IF x = "user" THEN user
                    ELSE Str(<<(IF isStream THEN "streaming" ELSE "blocking")>>)]),
            isStream,
            IF isStream THEN [x \in {"Accept"} |-> <<"text/event-stream">>] ELSE EmptyFields,
            key)

\* The key the client was constructed with.
InitialKey == "k1"

\* Mutant: the follow-up request carries the key the client was built with.
ResultRequestStaleKey(task_id, key) ==
    Request("GET", ResultPath(task_id), Null, FALSE, EmptyFields, InitialKey)

\* result(task_id)
ResultRequest(task_id, key) ==
    Request("GET", ResultPath(task_id), Null, FALSE, EmptyFields, key)

(***************************************************************************)
(* The call's outcome: the promise getWorkflowResult returns.              *)
(***************************************************************************)
Pending == [state |-> "pending", text |-> Undefined, task_id |-> Undefined, reason |-> Undefined]

Resolved(text, tid) == [state |-> "resolved", text |-> text, task_id |-> tid, reason |-> Undefined]

Rejected(reason) == [state |-> "rejected", text |-> Undefined, task_id |-> Undefined, reason |-> reason]

\* Mutant: the embedded error code is not looked at.
BlockingResultUnchecked(response) ==
    Resolved(OrElse(Get(Get(Get(response, "data"), "outputs"), "text"), Str(<<>>)),
             Get(response, "task_id"))

\* Mutant: info() has no try/catch around the request.
InfoResultUncaught(r) ==
    IF r.threw THEN Rejected(r.error)
    ELSE [Resolved(Undefined, Undefined) EXCEPT
             !.reason = Obj([x \in {"data"} |-> Obj([y \in {"name"} |->
                 OrElse(OrElse(Get(r.data, "name"), Get(Get(r.data, "data"), "name")),
                        PlaceholderName)])])]

\* info(): what it returns for the executor's outcome r.  The value it
\* resolves to is carried in the promise's reason field.
InfoResult(r) ==
    [Resolved(Undefined, Undefined) EXCEPT
        !.reason = Obj([x \in {"data"} |-> Obj([y \in {"name"} |->
            IF r.threw THEN PlaceholderName
            ELSE OrElse(OrElse(Get(r.data, "name"), Get(Get(r.data, "data"), "name")),
                        PlaceholderName)])])]

\* The non-streaming path.
BlockingResult(response) ==
    IF Truthy(Get(response, "code")) THEN Rejected(Get(response, "message"))
    ELSE Resolved(OrElse(Get(Get(Get(response, "data"), "outputs"), "text"), Str(<<>>)),
                  Get(response, "task_id"))

\* Mutant: JSON.parse is applied to outputs of every type.
NormalizeAlwaysParse(o) ==
    IF ~Truthy(o) THEN [outputs |-> Obj(EmptyFields), failed |-> FALSE]
    ELSE LET p == JSONParse(TemplateStr(o))
         IN  IF p.ok THEN [outputs |-> p.value, failed |-> FALSE]
             ELSE [outputs |-> Obj(EmptyFields), failed |-> TRUE]

\* The outputs the result is read from, and whether parsing them failed.
NormalizeOutputs(o) ==
    IF ~Truthy(o) THEN [outputs |-> Obj(EmptyFields), failed |-> FALSE]
    ELSE IF o.kind = "string" THEN
        LET p == JSONParse(o.s)
        IN  IF p.ok THEN [outputs |-> p.value, failed |-> FALSE]
            ELSE [outputs |-> Obj(EmptyFields), failed |-> TRUE]
    ELSE [outputs |-> o, failed |-> FALSE]

\* Mutant: a failure to parse outputs is raised to the caller.
ReconcileRaising(data, tid) ==
    IF Throws(data) THEN Rejected(Err(<<"TypeError">>))
    ELSE IF NormalizeOutputs(Get(data, "outputs")).failed THEN Rejected(Err(<<"SyntaxError">>))
    ELSE Resolved(Get(NormalizeOutputs(Get(data, "outputs")).outputs, "text"), tid)

\* The result reconciler, from the record data on.  Reading data.outputs of
\* null throws a TypeError that nothing catches.
Reconcile(data, tid) ==
    IF Throws(data) THEN Rejected(Err(<<"TypeError">>))
    ELSE Resolved(Get(NormalizeOutputs(Get(data, "outputs")).outputs, "text"), tid)

ReconcileLog(data) ==
    IF Throws(data) THEN <<>>
    ELSE IF NormalizeOutputs(Get(data, "outputs")).failed THEN <<"result", "parse_failed">>
    ELSE <<"result">>

(***************************************************************************)
(* Inputs: what the server may send.                                       *)
(***************************************************************************)
RunIdKey == Quote("workflow_run_id")

EventKey == Quote("event")

\* Complete lines as sent, without their terminating "\n".
LineSet ==
    { <<>>,
      <<":", "data", ":", "{", RunIdKey, ":", Quote("r2"), "}">>,
      <<" ", "data", ":", "{", RunIdKey, ":", Quote("r2"), "}">>,
      <<"data", ":", " ", "[DONE]", "\r">>,
      <<"data", ":", "{", RunIdKey, ":", Quote("r1"), "}">>,
      <<"data", ":", " ", "{", RunIdKey, ":", Quote("r2"), ",", EventKey, ":", Quote("error"), "}">>,
      <<"data", ":", "{", EventKey, ":", Quote("workflow_started"), "}", "\r">>,
      <<"data", ":", "{", RunIdKey, ":", "\"\"", "}">>,
      <<"data", ":", "{", RunIdKey, ":", "7", "}">>,
      <<"data", ":", "{", RunIdKey, ":", Quote("r2"), LeadByte, ContByte>>,
      <<"data", ":", "null">> }

\* What may follow the last "\n" before the stream ends.
TailSet ==
    { <<>>,
      <<"data", ":", "{", RunIdKey, ":", Quote("r2"), "}", LeadByte>> }

RECURSIVE Flatten(_)
Flatten(ls) == IF ls = <<>> THEN <<>> ELSE Head(ls) \o <<NL>> \o Flatten(Tail(ls))

Streams ==
    { Flatten(ls) \o t : ls \in UNION { [1..n -> LineSet] : n \in 0..MaxLines }, t \in TailSet }

StreamsFrom(lines, tails) ==
    { Flatten(ls) \o t : ls \in UNION { [1..n -> lines] : n \in 0..MaxLines }, t \in tails }

HttpResponse(ok, status, statusText, jsonOk, json, textOk, text) ==
    [net |-> "ok", ok |-> ok, status |-> status, statusText |-> statusText,
     jsonOk |-> jsonOk, json |-> json, textOk |-> textOk, text |-> text]

NetworkFailure == [HttpResponse(FALSE, 0, <<>>, FALSE, Undefined, FALSE, <<>>) EXCEPT !.net = "failed"]

OkJson(v) == HttpResponse(TRUE, 200, <<"OK">>, TRUE, v, TRUE, <<>>)

OkNotJson == HttpResponse(TRUE, 200, <<"OK">>, FALSE, Undefined, TRUE, <<"x">>)

ErrorResponses ==
    { NetworkFailure,
      HttpResponse(FALSE, 400, <<"Bad Request">>, TRUE, Undefined, TRUE, <<"x">>),
      HttpResponse(FALSE, 500, <<"Internal Server Error">>, FALSE, Undefined, FALSE, <<>>) }

Field1(k, v) == [x \in {k} |-> v]

Field2(k1, v1, k2, v2) == [x \in {k1, k2} |-> IF x = k1 THEN v1 ELSE v2]

\* Bodies of the blocking response to POST /workflows/run.
BlockingBodies ==
    { Obj(Field2("data", Obj(Field1("outputs", Obj(Field1("text", Str(<<"hi">>))))),
                 "task_id", Str(<<"r1">>))),
      Obj(Field2("data", Obj(Field1("outputs", Obj(EmptyFields))), "task_id", Str(<<"r2">>))),
      Obj(Field2("code", Str(<<"E1">>), "message", Str(<<"bad input">>))),
      Obj(Field1("code", Num(7))),
      Obj(Put(Field2("code", Num(0), "message", Str(<<"ok">>)), "task_id", Str(<<"r1">>))),
      Obj(Field2("code", Str(<<>>), "data", Obj(Field1("outputs", Obj(Field1("text", Str(<<"hi">>))))))),
      Obj(EmptyFields),
      Null }

RunResponses == ErrorResponses \cup {OkNotJson} \cup { OkJson(b) : b \in BlockingBodies }

\* The objects a final result record may carry as its outputs.
OutputObjects ==
    { Obj(Field2("text", Str(<<"hi">>), "status", Num(7))),
      Obj(Field1("text", Str(<<>>))),
      Obj(EmptyFields) }

\* Bodies of the response to GET /workflows/run/{id}.
ResultBodies ==
    { Obj(Field1("outputs", o)) : o \in OutputObjects }
    \cup { Obj(Field1("outputs", Str(JSONStringify(o)))) : o \in OutputObjects }
    \cup { Obj(Field1("outputs", Str(<<"x">>))),
           Obj(Field1("outputs", Str(<<"{", Quote("text"), ":", Quote("hi")>>))),
           Obj(Field1("outputs", Str(<<"null">>))),
           Obj(Field1("outputs", Str(<<>>))),
           Obj(Field1("outputs", Num(7))),
           Obj(EmptyFields),
           Null }

ResultResponses == ErrorResponses \cup {OkNotJson} \cup { OkJson(b) : b \in ResultBodies }

(***************************************************************************)
(* State of one getWorkflowResult call on a client.                        *)
(***************************************************************************)
VARIABLES
    apiKey,     \* this.apiKey
    isStream,   \* the call's isStream argument
    pc,         \* where the call is: "idle", "run", "reading", "result", "done"
    requests,   \* the requests handed to fetch, in order
    wire,       \* the bytes of the response stream
    pos,        \* how many of them reader.read() has delivered
    pending,    \* the decoder's state
    buffer,     \* readAll's line buffer
    task_id,    \* the captured run identifier
    log,        \* what console.log has written
    trace,      \* history: the iterations of readAll's inner loop
    data,       \* the record the reconciler works on
    outcome,    \* the promise the call returns
    exec,       \* one use of the request executor or of info(), on its own
    calls       \* streaming calls running concurrently on the client

vars ==
    <<apiKey, isStream, pc, requests, wire, pos, pending, buffer, task_id, log, trace, data,
      outcome, exec, calls>>

\* No request of the executor on its own is under way.
ExecIdle == [phase |-> "idle"]

\* No concurrent call has been made.
NoCalls == <<>>

\* The state at construction, for a call that will read one of the streams.
InitFor(streams) ==
    /\ apiKey = InitialKey
    /\ isStream \in BOOLEAN
    /\ pc = "idle"
    /\ requests = <<>>
    /\ wire \in (IF isStream THEN streams ELSE {<<>>})
    /\ pos = 0
    /\ pending = 0
    /\ buffer = <<>>
    /\ task_id = Str(<<>>)
    /\ log = <<>>
    /\ trace = <<>>
    /\ data = Undefined
    /\ outcome = Pending
    /\ exec = ExecIdle
    /\ calls = NoCalls

Init == InitFor(Streams)

\* getWorkflowResult is called: run() issues POST /workflows/run.
Call ==
    /\ pc = "idle"
    /\ requests' = <<RunRequest(Obj(EmptyFields), Str(<<"dify-schedule">>), isStream, apiKey)>>
    /\ pc' = "run"
    /\ UNCHANGED <<exec, calls, apiKey, isStream, wire, pos, pending, buffer, task_id, log, trace, data, outcome>>

\* await this.run(...) settles.  A failure rejects the call; a blocking
\* response settles it; a streaming response starts readAll.
RunResponse(res) ==
    /\ pc = "run"
    /\ LET r == Respond(requests[1], res)
       IN  IF r.threw THEN
               /\ outcome' = Rejected(r.error)
               /\ pc' = "done"
               /\ UNCHANGED <<log, data>>
           ELSE IF ~isStream THEN
               /\ outcome' = BlockingResult(r.data)
               /\ data' = r.data
               /\ log' = IF BlockingResult(r.data).state = "rejected" THEN Append(log, "failed") ELSE log
               /\ pc' = "done"
           ELSE
               /\ log' = Append(log, "entered")
               /\ pc' = "reading"
               /\ UNCHANGED <<outcome, data>>
    /\ UNCHANGED <<exec, calls, apiKey, isStream, requests, wire, pos, pending, buffer, task_id, trace>>

\* Mutant: the text left after the last line break is dropped between reads.
ReadNoCarry ==
    /\ pc = "reading"
    /\ pos < Len(wire)
    /\ \E k \in 1..MaxChunk :
        /\ pos + k <= Len(wire)
        /\ LET d == Decode(pending, SubSeq(wire, pos + 1, pos + k), <<>>)
               st == Drain([buffer |-> d.out, task_id |-> task_id,
                            log |-> log, thrown |-> Undefined, trace |-> trace])
           IN  /\ pos' = pos + k
               /\ pending' = d.pending
               /\ buffer' = <<>>
               /\ task_id' = st.task_id
               /\ log' = st.log
               /\ trace' = st.trace
               /\ UNCHANGED <<pc, outcome>>
    /\ UNCHANGED <<exec, calls, apiKey, isStream, requests, wire, data>>

\* reader.read() delivers a chunk: decode it, append it to the buffer and
\* process every complete line the buffer now holds.  An exception leaving
\* the loop would reject the call.
Read ==
    /\ pc = "reading"
    /\ pos < Len(wire)
    /\ \E k \in 1..MaxChunk :
        /\ pos + k <= Len(wire)
        /\ LET d == Decode(pending, SubSeq(wire, pos + 1, pos + k), <<>>)
               st == Drain([buffer |-> buffer \o d.out, task_id |-> task_id,
                            log |-> log, thrown |-> Undefined, trace |-> trace])
           IN  /\ pos' = pos + k
               /\ pending' = d.pending
               /\ buffer' = st.buffer
               /\ task_id' = st.task_id
               /\ log' = st.log
               /\ trace' = st.trace
               /\ IF st.thrown = Undefined
                  THEN UNCHANGED <<pc, outcome>>
                  ELSE outcome' = Rejected(st.thrown) /\ pc' = "done"
    /\ UNCHANGED <<exec, calls, apiKey, isStream, requests, wire, data>>

\* Mutant: readAll returns as soon as a run identifier is captured.
ReadDoneOnceCaptured ==
    /\ pc = "reading"
    /\ pos = Len(wire) \/ Truthy(task_id)
    /\ IF Truthy(task_id) THEN
           /\ requests' = Append(requests, ResultRequest(task_id, apiKey))
           /\ pc' = "result"
           /\ UNCHANGED <<log, data, outcome>>
       ELSE
           /\ data' = Obj(Field1("outputs", Str(<<>>)))
           /\ outcome' = Reconcile(data', task_id)
           /\ log' = log \o ReconcileLog(data')
           /\ pc' = "done"
           /\ UNCHANGED requests
    /\ UNCHANGED <<exec, calls, apiKey, isStream, wire, pos, pending, buffer, task_id, trace>>

\* Mutant: the follow-up request is issued whatever was captured.
ReadDoneAlwaysFetch ==
    /\ pc = "reading"
    /\ pos = Len(wire)
    /\ requests' = Append(requests, ResultRequest(task_id, apiKey))
    /\ pc' = "result"
    /\ UNCHANGED <<exec, calls, apiKey, isStream, wire, pos, pending, buffer, task_id, log, trace, data, outcome>>

\* Mutant: at end-of-data what is left in the buffer is processed as a line.
ReadDoneFlush ==
    /\ pc = "reading"
    /\ pos = Len(wire)
    /\ LET st == Drain([buffer |-> buffer \o <<NL>>, task_id |-> task_id,
                        log |-> log, thrown |-> Undefined, trace |-> trace])
       IN  /\ task_id' = st.task_id
           /\ trace' = trace
           /\ IF Truthy(st.task_id) THEN
                  /\ requests' = Append(requests, ResultRequest(st.task_id, apiKey))
                  /\ pc' = "result"
                  /\ log' = st.log
                  /\ UNCHANGED <<data, outcome>>
              ELSE
                  /\ data' = Obj(Field1("outputs", Str(<<>>)))
                  /\ outcome' = Reconcile(data', st.task_id)
                  /\ log' = st.log \o ReconcileLog(data')
                  /\ pc' = "done"
                  /\ UNCHANGED requests
    /\ UNCHANGED <<exec, calls, apiKey, isStream, wire, pos, pending, buffer>>

\* Mutant: readAll also returns once a [DONE] line has been processed.
ReadDoneAtSentinel ==
    /\ pc = "reading"
    /\ \/ pos = Len(wire)
       \/ trace # <<>> /\ trace[Len(trace)].line = DataPrefix \o <<" ">> \o DoneSentinel
    /\ IF Truthy(task_id) THEN
           /\ requests' = Append(requests, ResultRequest(task_id, apiKey))
           /\ pc' = "result"
           /\ UNCHANGED <<log, data, outcome>>
       ELSE
           /\ data' = Obj(Field1("outputs", Str(<<>>)))
           /\ outcome' = Reconcile(data', task_id)
           /\ log' = log \o ReconcileLog(data')
           /\ pc' = "done"
           /\ UNCHANGED requests
    /\ UNCHANGED <<exec, calls, apiKey, isStream, wire, pos, pending, buffer, task_id, trace>>

\* reader.read() reports done: readAll returns.  With a run identifier the
\* follow-up request is issued; without one the call settles at once.
ReadDone ==
    /\ pc = "reading"
    /\ pos = Len(wire)
    /\ IF Truthy(task_id) THEN
           /\ requests' = Append(requests, ResultRequest(task_id, apiKey))
           /\ pc' = "result"
           /\ UNCHANGED <<log, data, outcome>>
       ELSE
           /\ data' = Obj(Field1("outputs", Str(<<>>)))
           /\ outcome' = Reconcile(data', task_id)
           /\ log' = log \o ReconcileLog(data')
           /\ pc' = "done"
           /\ UNCHANGED requests
    /\ UNCHANGED <<exec, calls, apiKey, isStream, wire, pos, pending, buffer, task_id, trace>>

\* reader.read() rejects (the connection breaks): the call rejects.
ReadFail ==
    /\ pc = "reading"
    /\ outcome' = Rejected(Err(<<"stream error">>))
    /\ pc' = "done"
    /\ UNCHANGED <<exec, calls, apiKey, isStream, requests, wire, pos, pending, buffer, task_id, log, trace, data>>

\* await this.result(task_id) settles.
ResultResponse(res) ==
    /\ pc = "result"
    /\ LET r == Respond(requests[2], res)
       IN  IF r.threw THEN
               /\ outcome' = Rejected(r.error)
               /\ UNCHANGED <<log, data>>
           ELSE
               /\ data' = r.data
               /\ outcome' = Reconcile(r.data, task_id)
               /\ log' = log \o ReconcileLog(r.data)
    /\ pc' = "done"
    /\ UNCHANGED <<exec, calls, apiKey, isStream, requests, wire, pos, pending, buffer, task_id, trace>>

Next ==
    \/ Call
    \/ \E res \in RunResponses : RunResponse(res)
    \/ Read
    \/ ReadDone
    \/ ReadFail
    \/ \E res \in ResultResponses : ResultResponse(res)

Spec == Init /\ [][Next]_vars

(***************************************************************************)
(* What the stream says, read off the wire as a whole.                     *)
(***************************************************************************)
DecodedText == Decode(0, wire, <<>>).out

\* The complete lines of a text, right-trimmed; what follows the last "\n"
\* is not a line.
RECURSIVE CompleteLines(_)
CompleteLines(t) ==
    IF IndexOf(t, NL) = 0 THEN <<>>
    ELSE <<TrimEnd(SubSeq(t, 1, IndexOf(t, NL) - 1))>>
         \o CompleteLines(SubSeq(t, IndexOf(t, NL) + 1, Len(t)))

IsDataLine(line) == StartsWith(line, DataPrefix)

Payload(line) == Trim(SubSeq(line, Len(DataPrefix) + 1, Len(line)))

\* The line is a data: line whose payload parses as JSON.
IsParsedEvent(line) ==
    IsDataLine(line) /\ Payload(line) # DoneSentinel /\ JSONParse(Payload(line)).ok

\* The line is a data: line whose payload is neither the sentinel nor JSON.
IsMalformed(line) ==
    IsDataLine(line) /\ Payload(line) # DoneSentinel /\ ~JSONParse(Payload(line)).ok

EventOf(line) == JSONParse(Payload(line)).value

CarriesRunId(line) ==
    IsParsedEvent(line) /\ EventOf(line).kind = "object"
    /\ "workflow_run_id" \in DOMAIN EventOf(line).fields

RunIdOf(line) == EventOf(line).fields["workflow_run_id"]

\* The value of the last workflow_run_id field among the parsed events.
RECURSIVE LastRunIdSeen(_)
LastRunIdSeen(lines) ==
    IF lines = <<>> THEN Str(<<>>)
    ELSE IF CarriesRunId(lines[Len(lines)]) THEN RunIdOf(lines[Len(lines)])
    ELSE LastRunIdSeen(SubSeq(lines, 1, Len(lines) - 1))

\* The same, passing over fields whose value is empty, zero or null.
RECURSIVE LastRunIdSet(_)
LastRunIdSet(lines) ==
    IF lines = <<>> THEN Str(<<>>)
    ELSE IF CarriesRunId(lines[Len(lines)]) /\ Truthy(RunIdOf(lines[Len(lines)]))
         THEN RunIdOf(lines[Len(lines)])
    ELSE LastRunIdSet(SubSeq(lines, 1, Len(lines) - 1))

\* readAll has returned: the stream has reported end-of-data.
ReadAllReturned == isStream /\ (Len(requests) = 2 \/ data # Undefined)

\* The run request was answered with a stream and readAll was entered.
StartedReading == isStream /\ log # <<>> /\ log[1] = "entered"

TraceLines == [i \in DOMAIN trace |-> trace[i].line]

StreamError == Err(<<"stream error">>)

(***************************************************************************)
(* C1.  Original statement: at end-of-data the captured run identifier is  *)
(* the value of the last workflow_run_id field seen in a parsed event, and *)
(* empty if there was none.                                                *)
(***************************************************************************)
C1_LastFieldSeen ==
    ReadAllReturned => task_id = LastRunIdSeen(CompleteLines(DecodedText))

\* C1, amended: at end-of-data the captured run identifier is the value of
\* the last workflow_run_id field that is not empty, zero or null among the
\* parsed events, and empty if there was none.
C1_LastNonEmptySeen ==
    ReadAllReturned => task_id = LastRunIdSet(CompleteLines(DecodedText))

\* Two events with different identifiers were parsed and the stream ended.
C1_Witness ==
    /\ ReadAllReturned
    /\ Len(trace) = 2
    /\ trace[1].after = Str(<<"r1">>)
    /\ trace[2].after = Str(<<"r2">>)
    /\ task_id = Str(<<"r2">>)

(***************************************************************************)
(* C2.  The follow-up request GET /workflows/run/{id} is issued only after *)
(* the stream has reported end-of-data, at most once, with {id} the run    *)
(* identifier the stream determines, which is the task_id returned.        *)
(***************************************************************************)
C2_FollowUpAfterEnd ==
    /\ Len(requests) <= 2
    /\ Len(requests) = 2 =>
        /\ isStream
        /\ pc \in {"result", "done"}
        /\ pos = Len(wire)
        /\ requests[2].method = "GET"
        /\ requests[2].body = "none"
        /\ ~requests[2].stream
        /\ requests[2].path
             = <<"/workflows/run/">> \o TemplateStr(LastRunIdSet(CompleteLines(DecodedText)))
        /\ requests[2].path = <<"/workflows/run/">> \o TemplateStr(task_id)
        /\ outcome.state = "resolved" => outcome.task_id = task_id

\* The follow-up request was answered and the call returned the identifier.
C2_Witness ==
    /\ Len(requests) = 2
    /\ outcome.state = "resolved"
    /\ outcome.task_id = Num(7)
    /\ requests[2].path = <<"/workflows/run/", "7">>

(***************************************************************************)
(* C3.  A data: [DONE] line does not end reading: the loop is left only    *)
(* when the stream's read reports done (or fails), and every complete line *)
(* of the stream, those after a [DONE] line included, is processed.        *)
(***************************************************************************)
C3_DoneDoesNotTerminate ==
    isStream =>
        /\ ReadAllReturned =>
            /\ pos = Len(wire)
            /\ TraceLines = CompleteLines(DecodedText)
        /\ (StartedReading /\ pc # "reading" /\ pos < Len(wire))
               => outcome = Rejected(StreamError)

\* A run identifier was captured from the line after a [DONE] line.
C3_Witness ==
    /\ ReadAllReturned
    /\ Len(trace) = 2
    /\ Payload(trace[1].line) = DoneSentinel
    /\ trace[2].before = Str(<<>>)
    /\ trace[2].after = Str(<<"r1">>)
    /\ task_id = Str(<<"r1">>)

(***************************************************************************)
(* C4.  Original statement: a run identifier, once observed, is not        *)
(* overwritten by a later event carrying a different workflow_run_id.      *)
(***************************************************************************)
C4_NeverOverwritten ==
    \A i \in DOMAIN trace : Truthy(trace[i].before) => trace[i].after = trace[i].before

\* C4, amended: a run identifier, once observed, is replaced only by the
\* workflow_run_id of a later parsed event that carries one which is not
\* empty, zero or null (last seen wins); no other line changes or clears it.
C4_OverwrittenOnlyByLaterId ==
    \A i \in DOMAIN trace :
        IF CarriesRunId(trace[i].line) /\ Truthy(RunIdOf(trace[i].line))
        THEN trace[i].after = RunIdOf(trace[i].line)
        ELSE trace[i].after = trace[i].before

\* An identifier was observed and a later event without one left it alone.
C4_Witness ==
    /\ Len(trace) = 2
    /\ trace[1].after = Str(<<"r1">>)
    /\ IsParsedEvent(trace[2].line)
    /\ ~CarriesRunId(trace[2].line)
    /\ trace[2].after = Str(<<"r1">>)

(***************************************************************************)
(* C5.  If no run identifier was captured by the time the stream ends, no  *)
(* follow-up request is issued (the run request is the call's only         *)
(* request) and the call returns a result without text and with the empty  *)
(* task_id.                                                                *)
(***************************************************************************)
C5_NoIdNoFollowUp ==
    (ReadAllReturned /\ ~Truthy(task_id)) =>
        /\ Len(requests) = 1
        /\ requests[1].path = RunPath
        /\ pc = "done"
        /\ task_id = Str(<<>>)
        /\ outcome = Resolved(Undefined, Str(<<>>))

\* A stream of two lines, neither carrying an identifier, has ended.
C5_Witness ==
    /\ ReadAllReturned
    /\ Len(trace) = 2
    /\ ~Truthy(task_id)
    /\ outcome.state = "resolved"

\* Between the start of reading and the follow-up request the call rejects
\* only because reader.read() rejected.
OnlyReadFailureRejects ==
    (StartedReading /\ Len(requests) = 1 /\ outcome.state = "rejected") => outcome.reason = StreamError

\* The bytes delivered so far, decoded.
DeliveredText == Decode(0, SubSeq(wire, 1, pos), <<>>).out

(***************************************************************************)
(* C6.  A data: line whose payload is not valid JSON is skipped: it raises *)
(* no error, leaves the captured run identifier and the rest of the line   *)
(* buffer unchanged, and the lines after it are processed.                 *)
(***************************************************************************)
C6_MalformedSkipped ==
    /\ \A i \in DOMAIN trace :
           IsMalformed(trace[i].line) => trace[i].after = trace[i].before /\ trace[i].kept
    /\ (\E i \in DOMAIN trace : IsMalformed(trace[i].line)) =>
           /\ OnlyReadFailureRejects
           /\ TraceLines = CompleteLines(DeliveredText)

\* A malformed line came after a captured identifier, which the call returns.
C6_Witness ==
    /\ Len(trace) = 2
    /\ trace[1].after = Str(<<"r1">>)
    /\ IsMalformed(trace[2].line)
    /\ trace[2].after = Str(<<"r1">>)
    /\ Len(requests) = 2
    /\ outcome.state = "resolved"
    /\ outcome.task_id = Str(<<"r1">>)

(***************************************************************************)
(* C7.  A complete line that is blank, begins with ":" or otherwise does   *)
(* not begin with "data:" is a no-op: it raises no error and leaves the    *)
(* captured run identifier unchanged.                                      *)
(***************************************************************************)
C7_OtherLinesNoOp ==
    /\ \A i \in DOMAIN trace :
           (trace[i].line = <<>> \/ StartsWith(trace[i].line, <<":">>) \/ ~IsDataLine(trace[i].line))
               => trace[i].after = trace[i].before
    /\ (\E i \in DOMAIN trace : ~IsDataLine(trace[i].line)) => OnlyReadFailureRejects

\* An indented data: line naming r2 came after r1 was captured.
C7_Witness ==
    /\ Len(trace) = 2
    /\ trace[1].after = Str(<<"r1">>)
    /\ trace[2].line # <<>>
    /\ ~StartsWith(trace[2].line, <<":">>)
    /\ ~IsDataLine(trace[2].line)
    /\ trace[2].after = Str(<<"r1">>)
    /\ pc = "result"

(***************************************************************************)
(* C8.  In blocking mode the call rejects with the response's embedded     *)
(* message exactly when the response carries an error code, returning no   *)
(* result; otherwise it resolves to the text and task_id of the response.  *)
(* No second request is issued.                                            *)
(***************************************************************************)
C8_BlockingResult ==
    ~isStream =>
        /\ Len(requests) <= 1
        /\ pc # "done" => outcome = Pending
        /\ (pc = "done" /\ data = Undefined) =>
               outcome.state = "rejected" /\ outcome.reason.kind = "error"
        /\ (pc = "done" /\ data # Undefined) =>
               IF Truthy(Get(data, "code"))
               THEN outcome = Rejected(Get(data, "message"))
               ELSE /\ outcome.state = "resolved"
                    /\ outcome.task_id = Get(data, "task_id")
                    /\ LET t == Get(Get(Get(data, "data"), "outputs"), "text")
                       IN  outcome.text = IF Truthy(t) THEN t ELSE Str(<<>>)

\* The response {code: "E1", message: "bad input"} rejected the call.
C8_Witness ==
    /\ ~isStream
    /\ pc = "done"
    /\ Get(data, "code") = Str(<<"E1">>)
    /\ outcome = Rejected(Str(<<"bad input">>))
    /\ Len(requests) = 1

\* The final result record was fetched and the call resolved.
Reconciled == Len(requests) = 2 /\ pc = "done" /\ outcome.state = "resolved"

(***************************************************************************)
(* C9.  The streaming call returns the same {text, task_id} whether the    *)
(* fetched record's outputs is an object or the string holding that        *)
(* object's JSON serialization; an object is used as it is.                *)
(***************************************************************************)
C9_ObjectOrSerialized ==
    Reconciled =>
        LET o == Get(data, "outputs")
        IN  /\ o.kind = "object" =>
                /\ outcome = Resolved(Get(o, "text"), task_id)
                /\ outcome = Reconcile(Obj(Field1("outputs", Str(JSONStringify(o)))), task_id)
            /\ o.kind = "string" =>
                \A obj \in OutputObjects :
                    o.s = JSONStringify(obj) =>
                        /\ outcome = Resolved(Get(obj, "text"), task_id)
                        /\ outcome = Reconcile(Obj(Field1("outputs", obj)), task_id)

\* outputs was the serialization of an object whose text is "hi".
C9_Witness ==
    /\ Reconciled
    /\ Get(data, "outputs").kind = "string"
    /\ \E obj \in OutputObjects :
           Get(data, "outputs").s = JSONStringify(obj) /\ Get(obj, "text") = Str(<<"hi">>)
    /\ outcome.text = Str(<<"hi">>)

(***************************************************************************)
(* C10.  When the fetched record's outputs is a string that is not valid   *)
(* JSON the streaming call does not raise: it resolves without text and    *)
(* with the captured task_id, having logged the failure.                   *)
(***************************************************************************)
C10_UnparsableOutputs ==
    (Len(requests) = 2 /\ pc = "done" /\ Get(data, "outputs").kind = "string"
        /\ Get(data, "outputs").s # <<>> /\ ~JSONParse(Get(data, "outputs").s).ok) =>
        /\ outcome = Resolved(Undefined, task_id)
        /\ Truthy(task_id)
        /\ log[Len(log)] = "parse_failed"

\* outputs was the text x, which is not JSON.
C10_Witness ==
    /\ Len(requests) = 2
    /\ pc = "done"
    /\ Get(data, "outputs") = Str(<<"x">>)
    /\ outcome = Resolved(Undefined, Str(<<"r1">>))

\* ---------------------------------------------------------------------------
\* The request executor on its own, and info()
\* ---------------------------------------------------------------------------

\* The variables of one getWorkflowResult call.
callVars ==
    <<isStream, pc, requests, wire, pos, pending, buffer, task_id, log, trace, data, outcome>>

\* t has sub as a contiguous part.
Contains(t, sub) ==
    \E i \in 1..(Len(t) + 1) :
        i + Len(sub) - 1 <= Len(t) /\ SubSeq(t, i, i + Len(sub) - 1) = sub

ApiKeys == {"k1", "k2"}

ExecClients == {"workflow", "dify"}

ExecMethods == {"GET", "POST", "DELETE"}

\* Endpoints of the route table.
ExecPaths == {<<"/meta">>, <<"/files/upload">>, RunPath}

ExecData ==
    { Null, Undefined, Num(0), Str(<<>>), Obj(EmptyFields),
      Obj(Field1("user", Str(<<"u">>))) }

\* Extra headers a caller passes.
ExecHeaders ==
    { EmptyFields,
      Field1("Content-Type", <<"multipart/form-data">>),
      Field1("Accept", <<"text/event-stream">>),
      Field1("Authorization", <<"Basic ", "x">>) }

ExecResponses == ErrorResponses \cup {OkNotJson, OkJson(Obj(Field1("name", Str(<<"hi">>))))}

InfoUsers == {Str(<<"dify-schedule">>), Undefined}

\* Bodies of the response to GET /info.
InfoBodies ==
    { Obj(Field1("name", Str(<<"hi">>))),
      Obj(Field1("data", Obj(Field1("name", Str(<<"hi">>))))),
      Obj(Field2("name", Str(<<>>), "data", Obj(Field1("name", Str(<<"hi">>))))),
      Obj(Field1("name", Str(<<>>))),
      Obj(Field1("name", Null)),
      Obj(Field1("data", Null)),
      Obj(Field1("data", Obj(Field1("name", Num(0))))),
      Obj(EmptyFields),
      Null }

InfoResponses == ErrorResponses \cup {OkNotJson} \cup { OkJson(b) : b \in InfoBodies }

\* updateApiKey(apiKey)
UpdateApiKey(k) ==
    /\ k # apiKey
    /\ apiKey' = k
    /\ UNCHANGED <<exec, calls, callVars>>

\* _request / sendRequest up to its await of fetch.
ExecIssue(client, method, path, d, stream, headers) ==
    /\ exec.phase = "idle"
    /\ exec' = [phase |-> "sent", op |-> "request", client |-> client, key |-> apiKey,
                method |-> method, path |-> path, data |-> d, headers |-> headers,
                stream |-> stream,
                req |-> IF client = "workflow"
                        THEN Request(method, path, d, stream, headers, apiKey)
                        ELSE SendRequest(method, path, d, stream, headers, apiKey)]
    /\ UNCHANGED <<apiKey, calls, callVars>>

\* _request / sendRequest from fetch's outcome to its return or throw.
ExecSettle(res) ==
    /\ exec.phase = "sent"
    /\ exec.op = "request"
    /\ exec' = [phase |-> "settled", res |-> res,
                result |-> IF exec.client = "workflow" THEN Respond(exec.req, res)
                           ELSE SendRespond(exec.req, res)] @@ exec
    /\ UNCHANGED <<apiKey, calls, callVars>>

\* info(user) up to its await of _request.
InfoCall(user) ==
    /\ exec.phase = "idle"
    /\ exec' = [phase |-> "sent", op |-> "info", client |-> "workflow", key |-> apiKey,
                method |-> "GET", path |-> InfoPath, data |-> Null, headers |-> EmptyFields,
                stream |-> FALSE, req |-> InfoRequest(user, apiKey)]
    /\ UNCHANGED <<apiKey, calls, callVars>>

\* info(user) from the executor's outcome to its return.
InfoSettle(res) ==
    /\ exec.phase = "sent"
    /\ exec.op = "info"
    /\ exec' = [phase |-> "settled", res |-> res,
                result |-> InfoResult(Respond(exec.req, res))] @@ exec
    /\ UNCHANGED <<apiKey, calls, callVars>>

InitExec == InitFor({<<>>}) /\ ~isStream

NextExec ==
    \/ \E k \in ApiKeys : UpdateApiKey(k)
    \/ \E client \in ExecClients, method \in ExecMethods, path \in ExecPaths, d \in ExecData,
          stream \in BOOLEAN, headers \in ExecHeaders :
          ExecIssue(client, method, path, d, stream, headers)
    \/ \E res \in ExecResponses : ExecSettle(res)
    \/ \E user \in InfoUsers : InfoCall(user)
    \/ \E res \in InfoResponses : InfoSettle(res)

SpecExec == InitExec /\ [][NextExec]_vars

\* An HTTP response outside the success range has arrived for a request of
\* the executor.
ExecFailed ==
    /\ exec.phase = "settled"
    /\ exec.op = "request"
    /\ exec.res.net = "ok"
    /\ ~exec.res.ok

\* C11: for every non-success HTTP response the executor throws an error
\* whose message contains the method, the path, the status code and the
\* status text, and returns no data or stream handle; when reading the error
\* body fails the same error is thrown, with an empty body text after the
\* line break.
C11_ErrorOnNonSuccess ==
    ExecFailed =>
        LET r == exec.result
            msg == r.error.s
        IN  /\ r.threw
            /\ r.data = Undefined
            /\ r.error.kind = "error"
            /\ Contains(msg, <<exec.method>>)
            /\ Contains(msg, exec.path)
            /\ Contains(msg, <<ToString(exec.res.status)>>)
            /\ Contains(msg, exec.res.statusText)
            /\ (~exec.res.textOk => msg[Len(msg)] = NL)
            /\ (exec.res.textOk => SubSeq(msg, Len(msg) - Len(exec.res.text), Len(msg))
                                       = <<NL>> \o exec.res.text)

\* A streaming POST is answered 500 and the error body cannot be read.
C11_Witness ==
    /\ ExecFailed
    /\ exec.stream
    /\ exec.method = "POST"
    /\ exec.res.status = 500
    /\ ~exec.res.textOk
    /\ exec.result.threw

\* C14: every request carries an Authorization header that is the bearer
\* token built from the client's API key, whatever the method, the body and
\* the extra headers the caller supplied.
C14_BearerOnEveryRequest ==
    exec.phase # "idle" => /\ "Authorization" \in DOMAIN exec.req.headers
                           /\ exec.req.headers["Authorization"] = <<"Bearer ", exec.key>>

\* C15: a GET request has no body whatever data was supplied; any other
\* request has a body exactly when data is neither null nor undefined, and
\* the body is that data.
C15_BodyRule ==
    exec.phase # "idle" =>
        /\ (exec.method = "GET" => exec.req.body = "none")
        /\ (exec.method # "GET" =>
                (exec.req.body # "none" <=> exec.data \notin {Null, Undefined}))
        /\ (exec.req.body # "none" => exec.req.data = exec.data)

\* A GET was issued with an object as data, and a DELETE with the falsy 0.
C15_Witness ==
    /\ exec.phase = "settled"
    /\ exec.op = "request"
    /\ \/ exec.method = "GET" /\ exec.data.kind = "object" /\ exec.req.body = "none"
       \/ exec.method = "DELETE" /\ exec.data = Num(0) /\ exec.req.body = "json"

\* C20: info() never rejects: whatever GET /info does, it resolves to
\* {data: {name}} with a non-empty name, the placeholder when the response
\* has none.
C20_InfoAlwaysResolves ==
    (exec.phase = "settled" /\ exec.op = "info") =>
        LET r == exec.result
            name == Get(Get(r.reason, "data"), "name")
            got == Respond(exec.req, exec.res)
            found == OrElse(Get(got.data, "name"), Get(Get(got.data, "data"), "name"))
        IN  /\ r.state = "resolved"
            /\ r.reason.kind = "object"
            /\ DOMAIN r.reason.fields = {"data"}
            /\ DOMAIN Get(r.reason, "data").fields = {"name"}
            /\ Truthy(name)
            /\ name # Str(<<>>)
            /\ (got.threw \/ ~Truthy(found) => name = PlaceholderName)
            /\ (~got.threw /\ Truthy(found) => name = found)

\* GET /info failed, and info() resolved to the placeholder.
C20_Witness ==
    /\ exec.phase = "settled"
    /\ exec.op = "info"
    /\ ~exec.res.ok
    /\ exec.result.state = "resolved"
    /\ Get(Get(exec.result.reason, "data"), "name") = PlaceholderName

\* ---------------------------------------------------------------------------
\* Swapping the API key while a call is under way
\* ---------------------------------------------------------------------------

KeyLines ==
    { <<>>,
      <<"data", ":", "{", RunIdKey, ":", Quote("r1"), "}">>,
      <<"data", ":", "{", EventKey, ":", Quote("workflow_started"), "}", "\r">> }

KeyStreams == StreamsFrom(KeyLines, {<<>>})

InitKey == InitFor(KeyStreams)

NextKey ==
    \/ Next
    \/ \E k \in ApiKeys : UpdateApiKey(k)

SpecKey == InitKey /\ [][NextKey]_vars

Authorization(req) == req.headers["Authorization"]

\* C12: a request's Authorization header is the bearer token of the key held
\* at the step that issues it, and no later step changes a request already
\* issued (a key swap included); so the follow-up request of a streaming call
\* carries the key held when reading ended, not the key the call began with.
C12_KeyFixedAtIssue ==
    [][ /\ Len(requests') >= Len(requests)
        /\ \A i \in 1..Len(requests) : requests'[i] = requests[i]
        /\ \A i \in (Len(requests) + 1)..Len(requests') :
              Authorization(requests'[i]) = <<"Bearer ", apiKey>> ]_vars

\* The key was swapped during the stream: the run request carries the old
\* key and the follow-up request the new one.
C12_Witness ==
    /\ isStream
    /\ Len(requests) = 2
    /\ Authorization(requests[1]) = <<"Bearer ", "k1">>
    /\ Authorization(requests[2]) = <<"Bearer ", "k2">>
    /\ pos > 0

\* ---------------------------------------------------------------------------
\* Concurrent streaming calls on one client
\* ---------------------------------------------------------------------------

\* The callers that each make one streaming call on the shared client.
ConcCallers == {"a", "b"}

ConcLine1 == <<"data", ":", "{", RunIdKey, ":", Quote("r1"), "}">>

ConcLine2 == <<"data", ":", "{", RunIdKey, ":", Quote("r2"), "}", "\r">>

\* The streams the calls read: each ends with a different run identifier
\* than it starts with, or names one only.
ConcStreams ==
    { Flatten(<<ConcLine1>>), Flatten(<<ConcLine1, ConcLine2>>), Flatten(<<ConcLine2, <<>>, ConcLine1>>) }

ConcRunResponses ==
    { OkNotJson, HttpResponse(FALSE, 400, <<"Bad Request">>, TRUE, Undefined, TRUE, <<"x">>) }

ConcResultResponses ==
    { OkJson(Obj(Field1("outputs", Obj(Field1("text", Str(<<"hi">>)))))),
      OkJson(Obj(Field1("outputs", Str(<<"x">>)))),
      HttpResponse(FALSE, 500, <<"Internal Server Error">>, FALSE, Undefined, FALSE, <<>>) }

\* The locals of a getWorkflowResult call that has just issued its run
\* request, reading the stream w.
NewCall(w, key) ==
    [pc |-> "run",
     requests |-> <<RunRequest(Obj(EmptyFields), Str(<<"dify-schedule">>), TRUE, key)>>,
     runRes |-> Undefined, resultRes |-> Undefined,
     wire |-> w, pos |-> 0, pending |-> 0, buffer |-> <<>>, task_id |-> Str(<<>>),
     outcome |-> Pending]

\* What one delivered chunk makes of a call's buffer and run identifier.
ReadChunk(me, k) ==
    LET d == Decode(me.pending, SubSeq(me.wire, me.pos + 1, me.pos + k), <<>>)
    IN  [d |-> d,
         st |-> Drain([buffer |-> me.buffer \o d.out, task_id |-> me.task_id,
                       log |-> <<>>, thrown |-> Undefined, trace |-> <<>>])]

\* getWorkflowResult(inputs, user, true) is called by c.
ConcCall(c) ==
    /\ c \notin DOMAIN calls
    /\ \E w \in ConcStreams : calls' = calls @@ (c :> NewCall(w, apiKey))
    /\ UNCHANGED <<apiKey, exec, callVars>>

\* c's await this.run(...) settles.
ConcRunResponse(c, res) ==
    /\ c \in DOMAIN calls
    /\ calls[c].pc = "run"
    /\ LET r == Respond(calls[c].requests[1], res)
       IN  calls' = [calls EXCEPT ![c] =
               IF r.threw
               THEN [@ EXCEPT !.runRes = res, !.outcome = Rejected(r.error), !.pc = "done"]
               ELSE [@ EXCEPT !.runRes = res, !.pc = "reading"]]
    /\ UNCHANGED <<apiKey, exec, callVars>>

\* Mutant: the run identifier is a field of the client, written by every call.
ConcReadSharedId(c) ==
    /\ c \in DOMAIN calls
    /\ calls[c].pc = "reading"
    /\ \E k \in 1..MaxChunk :
        /\ calls[c].pos + k <= Len(calls[c].wire)
        /\ LET got == ReadChunk(calls[c], k)
           IN  calls' = [x \in DOMAIN calls |->
                   IF x = c
                   THEN [calls[c] EXCEPT !.pos = @ + k, !.pending = got.d.pending,
                                         !.buffer = got.st.buffer, !.task_id = got.st.task_id]
                   ELSE [calls[x] EXCEPT !.task_id = got.st.task_id]]
    /\ UNCHANGED <<apiKey, exec, callVars>>

\* c's reader.read() delivers a chunk.
ConcRead(c) ==
    /\ c \in DOMAIN calls
    /\ calls[c].pc = "reading"
    /\ \E k \in 1..MaxChunk :
        /\ calls[c].pos + k <= Len(calls[c].wire)
        /\ LET got == ReadChunk(calls[c], k)
           IN  calls' = [calls EXCEPT ![c] =
                   IF got.st.thrown = Undefined
                   THEN [@ EXCEPT !.pos = @ + k, !.pending = got.d.pending,
                                  !.buffer = got.st.buffer, !.task_id = got.st.task_id]
                   ELSE [@ EXCEPT !.pos = @ + k, !.outcome = Rejected(got.st.thrown),
                                  !.pc = "done"]]
    /\ UNCHANGED <<apiKey, exec, callVars>>

\* c's reader.read() reports done.
ConcReadDone(c) ==
    /\ c \in DOMAIN calls
    /\ calls[c].pc = "reading"
    /\ calls[c].pos = Len(calls[c].wire)
    /\ calls' = [calls EXCEPT ![c] =
           IF Truthy(@.task_id)
           THEN [@ EXCEPT !.requests = Append(@, ResultRequest(calls[c].task_id, apiKey)),
                          !.pc = "result"]
           ELSE [@ EXCEPT !.outcome = Reconcile(Obj(Field1("outputs", Str(<<>>))),
                                                calls[c].task_id),
                          !.pc = "done"]]
    /\ UNCHANGED <<apiKey, exec, callVars>>

\* c's await this.result(task_id) settles.
ConcResultResponse(c, res) ==
    /\ c \in DOMAIN calls
    /\ calls[c].pc = "result"
    /\ LET r == Respond(calls[c].requests[2], res)
       IN  calls' = [calls EXCEPT ![c] =
               [@ EXCEPT !.resultRes = res,
                         !.outcome = IF r.threw THEN Rejected(r.error)
                                     ELSE Reconcile(r.data, calls[c].task_id),
                         !.pc = "done"]]
    /\ UNCHANGED <<apiKey, exec, callVars>>

InitConc == InitFor({<<>>}) /\ isStream

NextConc ==
    \/ \E c \in ConcCallers : ConcCall(c)
    \/ \E c \in ConcCallers, res \in ConcRunResponses : ConcRunResponse(c, res)
    \/ \E c \in ConcCallers : ConcRead(c)
    \/ \E c \in ConcCallers : ConcReadDone(c)
    \/ \E c \in ConcCallers, res \in ConcResultResponses : ConcResultResponse(c, res)

SpecConc == InitConc /\ [][NextConc]_vars

\* The run identifier a call alone captures from the stream w, delivered in
\* one chunk.
AloneId(w) ==
    Drain([buffer |-> Decode(0, w, <<>>).out, task_id |-> Str(<<>>),
           log |-> <<>>, thrown |-> Undefined, trace |-> <<>>]).task_id

\* The requests a call alone has issued once its stream has ended.
AloneRequests(w, key) ==
    <<RunRequest(Obj(EmptyFields), Str(<<"dify-schedule">>), TRUE, key)>>
        \o (IF Truthy(AloneId(w)) THEN <<ResultRequest(AloneId(w), key)>> ELSE <<>>)

\* What a call alone returns, given the stream and the responses it met.
AloneOutcome(w, key, runRes, resultRes) ==
    LET r1 == Respond(AloneRequests(w, key)[1], runRes)
    IN  IF r1.threw THEN Rejected(r1.error)
        ELSE IF ~Truthy(AloneId(w))
        THEN Reconcile(Obj(Field1("outputs", Str(<<>>))), AloneId(w))
        ELSE LET r2 == Respond(AloneRequests(w, key)[2], resultRes)
             IN  IF r2.threw THEN Rejected(r2.error) ELSE Reconcile(r2.data, AloneId(w))

\* C13: under every interleaving of the steps of two streaming calls on one
\* client, once a call's stream has ended its captured run identifier and its
\* requests are those of the same call alone on the same stream, and once it
\* has settled its result is the one it returns alone.
C13_CallsDoNotInterfere ==
    \A c \in DOMAIN calls :
        LET me == calls[c]
        IN  /\ (me.pc = "result" \/ (me.pc = "done" /\ me.pos = Len(me.wire)
                                       /\ me.runRes # Undefined /\ me.runRes.ok)) =>
                   /\ me.task_id = AloneId(me.wire)
                   /\ me.requests = AloneRequests(me.wire, apiKey)
            /\ me.pc = "done" =>
                   me.outcome = AloneOutcome(me.wire, apiKey, me.runRes, me.resultRes)

\* One call has resolved with the run r1 while the other, part-way through
\* a different stream, has captured r2.
C13_Witness ==
    /\ DOMAIN calls = ConcCallers
    /\ calls["a"].pc = "done"
    /\ calls["a"].outcome.state = "resolved"
    /\ calls["a"].task_id = Str(<<"r1">>)
    /\ calls["b"].pc = "reading"
    /\ calls["b"].pos < Len(calls["b"].wire)
    /\ calls["b"].task_id = Str(<<"r2">>)

\* ---------------------------------------------------------------------------
\* Chunking, and the text after the last line break
\* ---------------------------------------------------------------------------

\* Lines that take several reads to arrive, one of them holding a two-byte
\* character.
ChunkLines ==
    { <<>>,
      <<"data", ":", "{", RunIdKey, ":", Quote("r1"), "}">>,
      <<"data", ":", " ", "{", RunIdKey, ":", Quote("r2"), ",", EventKey, ":", Quote("error"), "}">>,
      <<"data", ":", "{", RunIdKey, ":", Quote("r2"), LeadByte, ContByte>> }

ChunkStreams == StreamsFrom(ChunkLines, TailSet)

InitChunk == InitFor(ChunkStreams)

SpecChunk == InitChunk /\ [][Next]_vars

\* The read loop's state after a text delivered in one chunk.
OneChunk(text) ==
    Drain([buffer |-> text, task_id |-> Str(<<>>), log |-> <<"entered">>,
           thrown |-> Undefined, trace |-> <<>>])

\* C16: however the bytes delivered so far were split into chunks (in the
\* middle of a line or of a character included), the lines processed, the
\* captured run identifier and the carried-over partial line are those of
\* the same bytes delivered in one chunk; so at end-of-data the lines
\* processed are the complete lines of the stream and the run identifier is
\* the one-chunk one.
C16_ChunkingIndependent ==
    StartedReading =>
        LET one == OneChunk(DeliveredText)
        IN  /\ trace = one.trace
            /\ task_id = one.task_id
            /\ buffer = one.buffer
            /\ pc = "reading" => log = one.log
            /\ ReadAllReturned => /\ TraceLines = CompleteLines(DecodedText)
                                  /\ task_id = OneChunk(DecodedText).task_id

\* The start of a second line is carried in the buffer after r1 was captured
\* from a first line that took several reads to arrive.
C16_Witness ==
    /\ pc = "reading"
    /\ Len(trace) = 1
    /\ trace[1].after = Str(<<"r1">>)
    /\ task_id = Str(<<"r1">>)
    /\ buffer = <<"data", ":", " ">>

\* What follows the last line break of a text.
RECURSIVE Unterminated(_)
Unterminated(t) ==
    IF IndexOf(t, NL) = 0 THEN t ELSE Unterminated(SubSeq(t, IndexOf(t, NL) + 1, Len(t)))

\* The progress log entries that classify events.
ClassLog == SelectSeq(log, LAMBDA x : x \in {"error", "started", "node", "finished"})

\* The processed lines whose event was classified.
ClassifiedLines ==
    { i \in DOMAIN trace :
        /\ IsParsedEvent(trace[i].line)
        /\ ~Throws(EventOf(trace[i].line))
        /\ Classify(EventOf(trace[i].line)) # "none" }

\* C19: when the stream reports end-of-data the text after the last line
\* break is still in the buffer, unprocessed: it is no processed line, the
\* captured run identifier is the one the last complete line left, the
\* follow-up request names that identifier, and the classifications logged
\* are those of the complete lines only.
C19_UnterminatedTailDiscarded ==
    ReadAllReturned =>
        /\ buffer = Unterminated(DecodedText)
        /\ TraceLines = CompleteLines(SubSeq(DecodedText, 1, Len(DecodedText) - Len(buffer)))
        /\ task_id = IF trace = <<>> THEN Str(<<>>) ELSE trace[Len(trace)].after
        /\ Len(requests) = 2 => requests[2] = ResultRequest(task_id, apiKey)
        /\ Len(ClassLog) = Cardinality(ClassifiedLines)

\* The stream ended after an unterminated data: line naming r2, and r1,
\* captured before it, is what the call returns.
C19_Witness ==
    /\ ReadAllReturned
    /\ IsParsedEvent(buffer)
    /\ RunIdOf(buffer) = Str(<<"r2">>)
    /\ task_id = Str(<<"r1">>)
    /\ outcome.state = "resolved"
    /\ outcome.task_id = Str(<<"r1">>)

\* ---------------------------------------------------------------------------
\* Events of the error class
\* ---------------------------------------------------------------------------

\* Events of each class, with and without a run identifier.
ClassLines ==
    { <<"data", ":", "{", RunIdKey, ":", Quote("r1"), "}">>,
      <<"data", ":", "{", EventKey, ":", Quote("error"), "}">>,
      <<"data", ":", "{", EventKey, ":", Quote("workflow_started"), ",",
        Quote("status"), ":", "400", "}">>,
      <<"data", ":", "{", EventKey, ":", Quote("workflow_started"), ",",
        RunIdKey, ":", Quote("r2"), "}">>,
      <<"data", ":", "{", RunIdKey, ":", Quote("r2"), ",", EventKey, ":", Quote("error"), "}">> }

ClassStreams == StreamsFrom(ClassLines, {<<>>})

InitClass == InitFor(ClassStreams)

SpecClass == InitClass /\ [][Next]_vars

\* The line is a parsed event that takes the first branch of the progress
\* log: no event field, event "error", or status 400.
IsErrorClass(line) ==
    /\ IsParsedEvent(line)
    /\ ~Throws(EventOf(line))
    /\ Classify(EventOf(line)) = "error"

\* C17, original statement: an event of the error class does not change or
\* clear the captured run identifier.
C17_ErrorClassLeavesId ==
    \A i \in DOMAIN trace : IsErrorClass(trace[i].line) => trace[i].after = trace[i].before

\* C17, amended: classification has no effect beyond the progress log.  An
\* event of the error class changes the captured run identifier only as any
\* event does, to its own workflow_run_id when that is not empty, and never
\* clears it; it does not stop reading or reject the call, the lines after
\* it are processed, and at end-of-data the follow-up request is issued
\* exactly when an identifier is captured.
C17_ClassificationObservational ==
    /\ \A i \in DOMAIN trace :
           IsErrorClass(trace[i].line) =>
               /\ trace[i].after = Capture(EventOf(trace[i].line), trace[i].before)
               /\ Truthy(trace[i].before) => Truthy(trace[i].after)
               /\ trace[i].kept
    /\ (\E i \in DOMAIN trace : IsErrorClass(trace[i].line)) =>
           /\ OnlyReadFailureRejects
           /\ StartedReading => TraceLines = CompleteLines(DeliveredText)
           /\ ReadAllReturned =>
                  /\ pos = Len(wire)
                  /\ task_id = LastRunIdSet(CompleteLines(DecodedText))
                  /\ Len(requests) = 2 <=> Truthy(task_id)
                  /\ Len(requests) = 2 => requests[2] = ResultRequest(task_id, apiKey)

\* A status-400 event came first; the line after it was processed, r2 was
\* captured from it and the follow-up request for r2 was issued.
C17_Witness ==
    /\ Len(trace) = 2
    /\ IsErrorClass(trace[1].line)
    /\ Get(EventOf(trace[1].line), "status") = Num(400)
    /\ trace[2].before = Str(<<>>)
    /\ trace[2].after = Str(<<"r2">>)
    /\ ~IsErrorClass(trace[2].line)
    /\ Len(requests) = 2
    /\ requests[2].path = ResultPath(Str(<<"r2">>))

\* ---------------------------------------------------------------------------
\* Termination of the streaming call
\* ---------------------------------------------------------------------------

LiveLines ==
    { <<"data", ":", " ", "[DONE]", "\r">>,
      <<"data", ":", "{", RunIdKey, ":", Quote("r1"), "}">>,
      <<"data", ":", "{", EventKey, ":", Quote("workflow_started"), "}", "\r">> }

LiveStreams == StreamsFrom(LiveLines, TailSet)

InitLive == InitFor(LiveStreams)

\* A step of Read, told by what it does to pc and pos: Read is the only
\* action that moves pos, and it can move it whenever bytes are left.
ReadDelivers ==
    /\ pc = "reading"
    /\ pos' \in (pos + 1)..Len(wire)

\* The stream keeps delivering and in the end reports done, and the result
\* request, once issued, is answered.
Fairness ==
    /\ WF_pos(ReadDelivers)
    /\ WF_vars(ReadDone)
    /\ WF_vars(\E res \in ResultResponses : ResultResponse(res))

SpecLive == InitLive /\ [][Next]_vars /\ Fairness

\* C18: a streaming call does not resolve before read() has reported done,
\* which happens only once every byte of the stream was delivered; and once
\* reading has started, if the stream goes on to report done and the
\* follow-up request, when issued, is answered, the call resolves or rejects.
C18_ResolvesAtEndOfStream ==
    /\ [](isStream /\ outcome.state = "resolved" => ReadAllReturned /\ pos = Len(wire))
    /\ [](isStream /\ pos < Len(wire) /\ outcome.state # "pending"
              => outcome.state = "rejected")
    /\ (StartedReading ~> outcome.state # "pending")

\* A stream with a [DONE] line before its last line was read to its end and
\* the call resolved.
C18_Witness ==
    /\ isStream
    /\ Len(trace) = 2
    /\ Payload(trace[1].line) = DoneSentinel
    /\ trace[2].line # trace[1].line
    /\ pos = Len(wire)
    /\ pc = "done"
    /\ outcome.state = "resolved"

====
